---- MODULE Spec2Model ----
(***************************************************************************)
(* efibc: the reboot notifier of drivers/staging/android/efibc.c, which    *)
(* stores the reboot argument in the LoaderEntryOneShot EFI variable.      *)
(*                                                                         *)
(* A narrow (char) string is modelled as the memory it occupies: a         *)
(* sequence of bytes 0..255 whose last byte is the terminating NUL; an     *)
(* embedded NUL is an earlier 0.  C index k is TLA+ index k+1.  A wide     *)
(* (efi_char16_t) buffer is modelled as the memory region that starts at   *)
(* its address: RegionUnits 16-bit units, of which only the first          *)
(* size/2 belong to the allocation, so that a write past the allocation    *)
(* is visible instead of being an error of the model.                      *)
(***************************************************************************)
EXTENDS Integers, Sequences, FiniteSets, TLC

----------------------------------------------------------------------------
(* Bounds of the model *)

\* longest generated reboot argument, in bytes, terminator excluded
MaxLen == 3
\* largest destination capacity, in bytes, handed to a stand-alone encoder call
MaxCap == 9
\* number of heap blocks the allocator can hand out at the same time
HeapSlots == 2

\* bytes a generated reboot argument is made of: NUL, 'A', and a byte >= 0x80
Alphabet == {0, 65, 200}

----------------------------------------------------------------------------
(* Constants of the program *)

\* "LoaderEntryOneShot"
LOADER_ENTRY_ONE_SHOT ==
    <<76, 111, 97, 100, 101, 114, 69, 110, 116, 114, 121, 79, 110, 101, 83, 104, 111, 116, 0>>

\* EFI_GUID(0x4a67b082, 0x0a4c, 0x41cf, 0xb6, 0xc7, 0x44, 0x0b, 0x29, 0xbb, 0x8c, 0x4f)
LOADER_GUID == <<1248309378, 2636, 16847, 182, 199, 68, 11, 41, 187, 140, 79>>

\* the attribute argument of efi.set_variable: the OR of three bits, as a set of bits
EfibcAttributesMissingRuntime ==
    {"EFI_VARIABLE_NON_VOLATILE", "EFI_VARIABLE_BOOTSERVICE_ACCESS"}

EfibcAttributes ==
    {"EFI_VARIABLE_NON_VOLATILE", "EFI_VARIABLE_BOOTSERVICE_ACCESS",
     "EFI_VARIABLE_RUNTIME_ACCESS"}

\* a null pointer to a wide buffer
NULL == 0
\* a null data pointer: no memory at all (a string's memory has at least its NUL)
NULL_DATA == <<>>

\* sizeof(efi_char16_t)
SizeofChar16 == 2
\* number of values of an efi_char16_t (u16)
Char16Mod == 65536
\* number of values of a char
CharMod == 256

\* the status codes of the firmware service
EfiStatuses ==
    {"EFI_SUCCESS", "EFI_NOT_FOUND", "EFI_OUT_OF_RESOURCES",
     "EFI_INVALID_PARAMETER", "EFI_WRITE_PROTECTED"}

\* the events of the reboot notifier chain
RebootEvents == {"SYS_RESTART", "SYS_HALT", "SYS_POWER_OFF"}

\* "reboot-to-recovery"
RebootToRecovery ==
    <<114, 101, 98, 111, 111, 116, 45, 116, 111, 45, 114, 101, 99, 111, 118, 101, 114, 121, 0>>

----------------------------------------------------------------------------
(* Memory *)

\* units of the memory region that starts at a wide buffer's address
RegionUnits == Len(LOADER_ENTRY_ONE_SHOT) + 1

\* content of a unit that was never written: outside the range of efi_char16_t
Unwritten == Char16Mod

\* the region of a block that is not allocated
FreeBlock == [live |-> FALSE, size |-> 0, units |-> [k \in 1..RegionUnits |-> Unwritten]]

\* kzalloc(size, GFP_KERNEL) when it succeeds: size bytes, all zero
ZeroedBlock(size) ==
    [live |-> TRUE, size |-> size,
     units |-> [k \in 1..RegionUnits |->
                  IF k <= size \div SizeofChar16 THEN 0 ELSE Unwritten]]

\* a block of size bytes of arbitrary content (here: never written)
RawBlock(size) == [FreeBlock EXCEPT !.live = TRUE, !.size = size]

\* the generated strings' memories: every byte sequence up to MaxLen, then NUL
StringsOfLen(n) == [1..n -> Alphabet]
Strings ==
    {Append(s, 0) : s \in UNION {StringsOfLen(n) : n \in 0..MaxLen}}
        \cup {RebootToRecovery}

\* what the reboot notifier chain can pass as data
Payloads == Strings \cup {NULL_DATA}

----------------------------------------------------------------------------
(* Pure helpers *)

\* strlen(str): the number of bytes before the first NUL
strlen(str) ==
    CHOOSE n \in 0..(Len(str) - 1) :
        /\ str[n + 1] = 0
        /\ \A k \in 0..(n - 1) : str[k + 1] # 0

\* efi_char16_strlen(s): the number of units before the first 0 unit
efi_char16_strlen(s) ==
    IF \E n \in 0..(Len(s) - 1) : s[n + 1] = 0
    THEN CHOOSE n \in 0..(Len(s) - 1) :
            /\ s[n + 1] = 0
            /\ \A k \in 0..(n - 1) : s[k + 1] # 0
    ELSE Len(s)

\* efi_char16_bufsz with the +1 for the terminator forgotten
efi_char16_bufsz_NoTerminator(str) == strlen(str) * SizeofChar16

\* efi_char16_bufsz(str)
efi_char16_bufsz(str) == (1 + strlen(str)) * SizeofChar16

\* dest[i] = src[i]: a char (signed on x86) converted to efi_char16_t (u16)
CharToChar16(b) ==
    LET c == IF b >= CharMod \div 2 THEN b - CharMod ELSE b
    IN  (c + Char16Mod) % Char16Mod

\* the unit limit compared with i, with the "- 1" forgotten
EncLimitReached_NoRoomForNul(i, dest_len) == ~(i < dest_len \div SizeofChar16)

\* the unit limit compared with i, one unit too small
EncLimitReached_OneShort(i, dest_len) ==
    /\ dest_len \div SizeofChar16 >= 2
    /\ ~(i < dest_len \div SizeofChar16 - 2)

\* a loop that relies on the source alone, the buffer being sized for it
EncLimitReached_SourceOnly(i, dest_len) == FALSE

\* not (i < (dest_len/sizeof(*dest)) - 1), the comparison made in size_t:
\* when dest_len/sizeof(*dest) is 0 the subtraction wraps to SIZE_MAX, which
\* no int i reaches
EncLimitReached(i, dest_len) ==
    /\ dest_len \div SizeofChar16 # 0
    /\ ~(i < dest_len \div SizeofChar16 - 1)

----------------------------------------------------------------------------
(* State *)

VARIABLES
    efi_runtime,        \* efi_enabled(EFI_RUNTIME_SERVICES)
    modstate,           \* "absent": the module is not loaded, "live": it is
    registered,         \* efibc_reboot_notifier is on the reboot notifier chain
    last_op,            \* the module entry point that returned last, with what it did
    pc,                 \* position in efibc_reboot_notifier_call
    what,               \* its argument what
    cmd,                \* the memory its argument data points to, NULL_DATA if null
    ret,                \* its locals, named as in the source
    status,
    name_efichar,
    cmd_efichar,
    name_efichar_blen,
    cmd_efichar_blen,
    enc,                \* the frame of efichar_from_char
    heap,               \* the blocks of the allocator
    log,                \* what the current notification did so far, in order
    sv,                 \* the arguments of the set_variable calls of the current notification
    prev                \* what the notification before did, when the current one repeats it
                        \* and the module has not been loaded or unloaded since

modvars == <<efi_runtime, modstate, registered, last_op, prev>>
callvars == <<pc, what, cmd, ret, status, name_efichar, cmd_efichar,
              name_efichar_blen, cmd_efichar_blen, log, sv>>
vars == <<modvars, callvars, enc, heap>>

Ptrs == 1..HeapSlots

\* the frame of efichar_from_char when no call is in progress
EncIdle ==
    [pc |-> "idle", dest |-> NULL, src |-> "cmd", dest_len |-> 0, i |-> 0,
     ret |-> 0, written |-> {}]

\* the frame at the entry of efichar_from_char(dest, src, dest_len): int i = 0
EncCall(dest, src, dest_len) ==
    [EncIdle EXCEPT !.pc = "loop", !.dest = dest, !.src = src, !.dest_len = dest_len]

\* the memory src points to: the string literal, or the notification's data
SrcMem == IF enc.src = "cmd" THEN cmd ELSE LOADER_ENTRY_ONE_SHOT

----------------------------------------------------------------------------
(* efichar_from_char *)

\* the loop condition: src[i] && i < (dest_len/sizeof(*dest)) - 1
EncLoopCond == SrcMem[enc.i + 1] # 0 /\ ~EncLimitReached(enc.i, enc.dest_len)

\* one iteration: dest[i] = src[i]; i++
EncStep ==
    /\ enc.pc = "loop"
    /\ EncLoopCond
    /\ heap' = [heap EXCEPT ![enc.dest].units[enc.i + 1] = CharToChar16(SrcMem[enc.i + 1])]
    /\ enc' = [enc EXCEPT !.i = @ + 1, !.written = @ \cup {enc.i}]
    /\ UNCHANGED <<modvars, callvars>>

\* after the loop: dest[i] = 0; return i
EncFinish ==
    /\ enc.pc = "loop"
    /\ ~EncLoopCond
    /\ heap' = [heap EXCEPT ![enc.dest].units[enc.i + 1] = 0]
    /\ enc' = [enc EXCEPT !.pc = "done", !.ret = enc.i, !.written = @ \cup {enc.i}]
    /\ UNCHANGED <<modvars, callvars>>

\* the notifier's frame when no notification is in progress
CallIdle ==
    /\ pc = "idle"
    /\ what = "SYS_HALT"
    /\ cmd = NULL_DATA
    /\ ret = "NOTIFY_DONE"
    /\ status = "EFI_NOT_FOUND"
    /\ name_efichar = NULL
    /\ cmd_efichar = NULL
    /\ name_efichar_blen = 0
    /\ cmd_efichar_blen = 0
    /\ log = <<>>
    /\ sv = <<>>

----------------------------------------------------------------------------
(* The allocator and the firmware, as the notifier sees them *)

\* what kzalloc can return: NULL, or the address of a block that is not in use
KzallocResults == {NULL} \cup {p \in Ptrs : ~heap[p].live}

\* the heap after p = kzalloc(size, GFP_KERNEL)
HeapAfterKzalloc(p, size) ==
    IF p = NULL THEN heap ELSE [heap EXCEPT ![p] = ZeroedBlock(size)]

\* the heap after kfree(p)
HeapAfterKfree(p) ==
    IF p = NULL THEN heap ELSE [heap EXCEPT ![p] = FreeBlock]

\* the units a reader finds at address p
UnitsAt(p) == IF p \in Ptrs THEN heap[p].units ELSE <<>>

\* the wide string the firmware reads at the name argument: up to and with its 0
WideStringAt(p) ==
    LET u == UnitsAt(p)
        n == efi_char16_strlen(u)
    IN  SubSeq(u, 1, IF n < Len(u) THEN n + 1 ELSE n)

\* the size bytes the firmware reads at the data argument, as whole units
DataAt(p, size) ==
    LET u == UnitsAt(p)
        n == size \div SizeofChar16
    IN  SubSeq(u, 1, IF n < Len(u) THEN n ELSE Len(u))

----------------------------------------------------------------------------
(* efibc_reboot_notifier_call *)

\* the filter with the test of the event forgotten
Filtered_AnyEvent(w, d) == d = NULL_DATA

\* what != SYS_RESTART || cmd == NULL
Filtered(w, d) == w # "SYS_RESTART" \/ d = NULL_DATA

\* a failed allocation of the command buffer that returns at once
CmdAllocFailLabel_Out1 == "out1"

\* a failed allocation of the command buffer that goes on to the firmware call
CmdAllocFailLabel_Call == "L120"

\* where a failed allocation of the command buffer goes: goto out2
CmdAllocFailLabel == "out2"

\* a status test that knows one failure code only
StatusFailed_OnlyNotFound(st) == st = "EFI_NOT_FOUND"

\* status != EFI_SUCCESS
StatusFailed(st) == st # "EFI_SUCCESS"

\* the declarations with their initial values, and the filter
Enter(w, d) ==
    /\ registered
    /\ pc \in {"idle", "returned"}
    /\ what' = w
    /\ cmd' = d
    /\ ret' = "NOTIFY_DONE"
    /\ status' = "EFI_NOT_FOUND"
    /\ name_efichar' = NULL
    /\ cmd_efichar' = NULL
    /\ name_efichar_blen' = efi_char16_bufsz(LOADER_ENTRY_ONE_SHOT)
    /\ cmd_efichar_blen' = 0
    /\ log' = <<>>
    /\ sv' = <<>>
    /\ pc' = IF Filtered(w, d) THEN "out1" ELSE "L92"
    /\ UNCHANGED <<efi_runtime, modstate, registered, last_op, enc, heap>>

\* the reboot notifier chain calls the notifier with an event and its data
Entry(w, d) == Enter(w, d) /\ prev' = <<>>

\* what a notification that has returned was given and did
Summary ==
    [what |-> what, cmd |-> cmd,
     name_ok |-> name_efichar # NULL, cmd_ok |-> cmd_efichar # NULL,
     status |-> status, ret |-> ret, sv |-> sv,
     steps |-> [k \in 1..Len(log) |-> log[k][1]],
     registered |-> registered, modstate |-> modstate]

\* the chain calls the notifier once more, with the event and the data of the
\* notification that has just returned
EntryAgain ==
    /\ pc = "returned"
    /\ prev = <<>>
    /\ Enter(what, cmd)
    /\ prev' = <<Summary>>

\* longest payload, in bytes, that another thread writes to during the call
MaxRaceLen == 2

\* another thread stores a byte into the payload, in front of its last NUL,
\* between the notifier's size query and its check of the copy
Mutate ==
    /\ pc \in {"L94", "L100", "L106", "L106ret", "L113", "L113ret"}
    /\ Len(cmd) <= MaxRaceLen + 1
    /\ \E k \in 1..(Len(cmd) - 1), b \in Alphabet :
        /\ b # cmd[k]
        /\ cmd' = [cmd EXCEPT ![k] = b]
    /\ UNCHANGED <<modvars, pc, what, ret, status, name_efichar, cmd_efichar,
                   name_efichar_blen, cmd_efichar_blen, log, sv, enc, heap>>

\* cmd_efichar_blen = efi_char16_bufsz(cmd)
SizeCmd ==
    /\ pc = "L92"
    /\ cmd_efichar_blen' = efi_char16_bufsz(cmd)
    /\ pc' = "L94"
    /\ UNCHANGED <<modvars, what, cmd, ret, status, name_efichar, cmd_efichar,
                   name_efichar_blen, log, sv, enc, heap>>

\* name_efichar = kzalloc(name_efichar_blen, GFP_KERNEL), and its test
AllocName ==
    /\ pc = "L94"
    /\ \E p \in KzallocResults :
        /\ name_efichar' = p
        /\ heap' = HeapAfterKzalloc(p, name_efichar_blen)
        /\ IF p = NULL
           THEN /\ log' = log \o <<<<"kzalloc", p>>, <<"pr_err", 0>>>>
                /\ pc' = "out1"
           ELSE /\ log' = Append(log, <<"kzalloc", p>>)
                /\ pc' = "L100"
    /\ UNCHANGED <<modvars, what, cmd, ret, status, cmd_efichar,
                   name_efichar_blen, cmd_efichar_blen, sv, enc>>

\* cmd_efichar = kzalloc(cmd_efichar_blen, GFP_KERNEL), and its test
AllocCmd ==
    /\ pc = "L100"
    /\ \E p \in KzallocResults :
        /\ cmd_efichar' = p
        /\ heap' = HeapAfterKzalloc(p, cmd_efichar_blen)
        /\ IF p = NULL
           THEN /\ log' = log \o <<<<"kzalloc", p>>, <<"pr_err", 0>>>>
                /\ pc' = CmdAllocFailLabel
           ELSE /\ log' = Append(log, <<"kzalloc", p>>)
                /\ pc' = "L106"
    /\ UNCHANGED <<modvars, what, cmd, ret, status, name_efichar,
                   name_efichar_blen, cmd_efichar_blen, sv, enc>>

\* the call efichar_from_char(name_efichar, LOADER_ENTRY_ONE_SHOT, name_efichar_blen)
EncodeNameCall ==
    /\ pc = "L106"
    /\ enc' = EncCall(name_efichar, "name", name_efichar_blen)
    /\ pc' = "L106ret"
    /\ UNCHANGED <<modvars, what, cmd, ret, status, name_efichar, cmd_efichar,
                   name_efichar_blen, cmd_efichar_blen, log, sv, heap>>

\* its result compared with strlen(LOADER_ENTRY_ONE_SHOT)
EncodeNameCheck ==
    /\ pc = "L106ret"
    /\ enc.pc = "done"
    /\ enc' = EncIdle
    /\ IF enc.ret # strlen(LOADER_ENTRY_ONE_SHOT)
       THEN /\ log' = Append(log, <<"pr_err", 0>>)
            /\ pc' = "out3"
       ELSE /\ log' = log
            /\ pc' = "L113"
    /\ UNCHANGED <<modvars, what, cmd, ret, status, name_efichar, cmd_efichar,
                   name_efichar_blen, cmd_efichar_blen, sv, heap>>

\* the call efichar_from_char(cmd_efichar, cmd, cmd_efichar_blen)
EncodeCmdCall ==
    /\ pc = "L113"
    /\ enc' = EncCall(cmd_efichar, "cmd", cmd_efichar_blen)
    /\ pc' = "L113ret"
    /\ UNCHANGED <<modvars, what, cmd, ret, status, name_efichar, cmd_efichar,
                   name_efichar_blen, cmd_efichar_blen, log, sv, heap>>

\* its result compared with strlen(cmd)
EncodeCmdCheck ==
    /\ pc = "L113ret"
    /\ enc.pc = "done"
    /\ enc' = EncIdle
    /\ IF enc.ret # strlen(cmd)
       THEN /\ log' = Append(log, <<"pr_err", 0>>)
            /\ pc' = "out3"
       ELSE /\ log' = log
            /\ pc' = "L120"
    /\ UNCHANGED <<modvars, what, cmd, ret, status, name_efichar, cmd_efichar,
                   name_efichar_blen, cmd_efichar_blen, sv, heap>>

\* status = efi.set_variable(name_efichar, &LOADER_GUID, attributes,
\* cmd_efichar_blen, cmd_efichar); the firmware answers with any status
SetVariable ==
    /\ pc = "L120"
    /\ \E st \in EfiStatuses : status' = st
    /\ sv' = Append(sv, [name |-> WideStringAt(name_efichar),
                         guid |-> LOADER_GUID,
                         attributes |-> EfibcAttributes,
                         data_size |-> cmd_efichar_blen,
                         data |-> DataAt(cmd_efichar, cmd_efichar_blen)])
    /\ log' = Append(log, <<"set_variable", 0>>)
    /\ pc' = "L129"
    /\ UNCHANGED <<modvars, what, cmd, ret, name_efichar, cmd_efichar,
                   name_efichar_blen, cmd_efichar_blen, enc, heap>>

\* a test of status that reports a failure of the firmware as NOTIFY_BAD
CheckStatus_Veto ==
    /\ pc = "L129"
    /\ IF StatusFailed(status)
       THEN /\ log' = Append(log, <<"pr_err", 0>>)
            /\ ret' = "NOTIFY_BAD"
       ELSE /\ log' = log
            /\ ret' = "NOTIFY_OK"
    /\ pc' = "out3"
    /\ UNCHANGED <<modvars, what, cmd, status, name_efichar, cmd_efichar,
                   name_efichar_blen, cmd_efichar_blen, sv, enc, heap>>

\* the test of status, and ret = NOTIFY_OK
CheckStatus ==
    /\ pc = "L129"
    /\ IF StatusFailed(status)
       THEN /\ log' = Append(log, <<"pr_err", 0>>)
            /\ ret' = ret
       ELSE /\ log' = log
            /\ ret' = "NOTIFY_OK"
    /\ pc' = "out3"
    /\ UNCHANGED <<modvars, what, cmd, status, name_efichar, cmd_efichar,
                   name_efichar_blen, cmd_efichar_blen, sv, enc, heap>>

\* an out3 that releases the name buffer instead of the command buffer
Out3_FreesName ==
    /\ pc = "out3"
    /\ heap' = HeapAfterKfree(name_efichar)
    /\ log' = Append(log, <<"kfree", name_efichar>>)
    /\ pc' = "out2"
    /\ UNCHANGED <<modvars, what, cmd, ret, status, name_efichar, cmd_efichar,
                   name_efichar_blen, cmd_efichar_blen, sv, enc>>

\* out3: kfree(cmd_efichar)
Out3 ==
    /\ pc = "out3"
    /\ heap' = HeapAfterKfree(cmd_efichar)
    /\ log' = Append(log, <<"kfree", cmd_efichar>>)
    /\ pc' = "out2"
    /\ UNCHANGED <<modvars, what, cmd, ret, status, name_efichar, cmd_efichar,
                   name_efichar_blen, cmd_efichar_blen, sv, enc>>

\* out2: kfree(name_efichar)
Out2 ==
    /\ pc = "out2"
    /\ heap' = HeapAfterKfree(name_efichar)
    /\ log' = Append(log, <<"kfree", name_efichar>>)
    /\ pc' = "out1"
    /\ UNCHANGED <<modvars, what, cmd, ret, status, name_efichar, cmd_efichar,
                   name_efichar_blen, cmd_efichar_blen, sv, enc>>

\* out1: return ret
Out1 ==
    /\ pc = "out1"
    /\ pc' = "returned"
    /\ UNCHANGED <<modvars, what, cmd, ret, status, name_efichar, cmd_efichar,
                   name_efichar_blen, cmd_efichar_blen, log, sv, enc, heap>>

----------------------------------------------------------------------------
(* efibc_init and efibc_exit *)

\* an init that registers whatever the firmware offers
RegisterWanted_Always(efi) == TRUE

\* efi_enabled(EFI_RUNTIME_SERVICES): init goes on to register the notifier
RegisterWanted(efi) == efi

\* efibc_init; register_reboot_notifier answers 0 (ok) or an error
efibc_init(ok) ==
    /\ modstate = "absent"
    /\ pc \in {"idle", "returned"}
    /\ IF ~RegisterWanted(efi_runtime)
       THEN /\ registered' = registered
            /\ modstate' = "live"
            /\ last_op' = [op |-> "init", ret |-> 0, reg_called |-> FALSE,
                           reg_failed |-> FALSE, was_registered |-> registered]
       ELSE IF ~ok
       THEN /\ registered' = registered
            /\ modstate' = "absent"
            /\ last_op' = [op |-> "init", ret |-> -1, reg_called |-> TRUE,
                           reg_failed |-> TRUE, was_registered |-> registered]
       ELSE /\ registered' = TRUE
            /\ modstate' = "live"
            /\ last_op' = [op |-> "init", ret |-> 0, reg_called |-> TRUE,
                           reg_failed |-> FALSE, was_registered |-> registered]
    /\ prev' = <<>>
    /\ UNCHANGED <<efi_runtime, callvars, enc, heap>>

\* efibc_exit: unregister_reboot_notifier(&efibc_reboot_notifier)
efibc_exit ==
    /\ modstate = "live"
    /\ pc \in {"idle", "returned"}
    /\ registered' = FALSE
    /\ modstate' = "absent"
    /\ last_op' = [op |-> "exit", ret |-> 0, reg_called |-> FALSE,
                   reg_failed |-> FALSE, was_registered |-> registered]
    /\ prev' = <<>>
    /\ UNCHANGED <<efi_runtime, callvars, enc, heap>>

----------------------------------------------------------------------------
(* Specifications *)

\* the module is not loaded, nothing is allocated; the firmware has runtime
\* services or has not
Init ==
    /\ efi_runtime \in BOOLEAN
    /\ modstate = "absent"
    /\ registered = FALSE
    /\ last_op = [op |-> "none", ret |-> 0, reg_called |-> FALSE, reg_failed |-> FALSE,
                 was_registered |-> FALSE]
    /\ prev = <<>>
    /\ CallIdle
    /\ enc = EncIdle
    /\ heap = [p \in Ptrs |-> FreeBlock]

Next ==
    \/ \E ok \in BOOLEAN : efibc_init(ok)
    \/ efibc_exit
    \/ \E w \in RebootEvents, d \in Payloads : Entry(w, d)
    \/ SizeCmd
    \/ AllocName
    \/ AllocCmd
    \/ EncodeNameCall
    \/ EncodeNameCheck
    \/ EncodeCmdCall
    \/ EncodeCmdCheck
    \/ EncStep
    \/ EncFinish
    \/ SetVariable
    \/ CheckStatus
    \/ Out3
    \/ Out2
    \/ Out1

Spec == Init /\ [][Next]_vars

\* a step of efibc_reboot_notifier_call after its entry
CallStep ==
    \/ SizeCmd
    \/ AllocName
    \/ AllocCmd
    \/ EncodeNameCall
    \/ EncodeNameCheck
    \/ EncodeCmdCall
    \/ EncodeCmdCheck
    \/ EncStep
    \/ EncFinish
    \/ SetVariable
    \/ CheckStatus
    \/ Out3
    \/ Out2
    \/ Out1

\* the notifier runs on the thread of the notifier chain, without sleeping on
\* anything but the allocator and the firmware, which answer: once entered it
\* keeps taking its steps
SpecLive == Spec /\ WF_vars(CallStep)

\* the same, with notifications that repeat the one before
NextTwice == Next \/ EntryAgain

SpecTwice == Init /\ [][NextTwice]_vars

\* the same, with a thread that writes to the payload during the call
NextRace == Next \/ Mutate

SpecRace == Init /\ [][NextRace]_vars

\* efichar_from_char called on its own: any string, any capacity, a destination
\* of that capacity whose content is arbitrary
InitEnc ==
    /\ efi_runtime = FALSE
    /\ modstate = "absent"
    /\ registered = FALSE
    /\ last_op = [op |-> "none", ret |-> 0, reg_called |-> FALSE, reg_failed |-> FALSE,
                 was_registered |-> FALSE]
    /\ pc = "idle"
    /\ what = "SYS_HALT"
    /\ cmd \in Strings
    /\ ret = "NOTIFY_DONE"
    /\ status = "EFI_NOT_FOUND"
    /\ name_efichar = NULL
    /\ cmd_efichar = NULL
    /\ name_efichar_blen = 0
    /\ cmd_efichar_blen = 0
    /\ log = <<>>
    /\ sv = <<>>
    /\ prev = <<>>
    /\ \E c \in 0..MaxCap :
        /\ enc = EncCall(1, "cmd", c)
        /\ heap = [p \in Ptrs |-> IF p = 1 THEN RawBlock(c) ELSE FreeBlock]

NextEnc == EncStep \/ EncFinish

SpecEnc == InitEnc /\ [][NextEnc]_vars

----------------------------------------------------------------------------
(* Properties of efibc_reboot_notifier_call *)

\* how often the current notification logged the event <<kind, arg>>
Count(kind, arg) == Cardinality({k \in 1..Len(log) : log[k] = <<kind, arg>>})

\* how often the current notification logged an event of that kind
CountKind(kind) == Cardinality({k \in 1..Len(log) : log[k][1] = kind})

\* the current notification is inside the function or has returned from it
InCall == pc # "idle"

C2_NoLeakOnFailure ==
    (pc = "returned" /\ CountKind("pr_err") > 0)
        => /\ ret = "NOTIFY_DONE"
           /\ \A p \in Ptrs :
                /\ Count("kzalloc", p) <= 1
                /\ Count("kfree", p) = Count("kzalloc", p)
                /\ ~heap[p].live
           /\ Count("kfree", NULL) = 0

C2_Witness ==
    /\ pc = "returned"
    /\ \E p \in Ptrs :
        log = <<<<"kzalloc", p>>, <<"kzalloc", NULL>>, <<"pr_err", 0>>, <<"kfree", p>>>>

\* the scenario of C3: SYS_RESTART with "reboot-to-recovery", both allocations
\* succeeded, a firmware that answers EFI_SUCCESS, and the call has returned
C3_Scenario ==
    /\ pc = "returned"
    /\ what = "SYS_RESTART"
    /\ cmd = RebootToRecovery
    /\ name_efichar # NULL
    /\ cmd_efichar # NULL
    /\ (sv # <<>> => status = "EFI_SUCCESS")

\* what C3 says of the call, but for the data size: set_variable was called
\* once, its name is "LoaderEntryOneShot", its data "reboot-to-recovery", both
\* with their terminator, the three attribute bits are set, the result is NOTIFY_OK
C3_Call ==
    /\ Len(sv) = 1
    /\ sv[1].name = LOADER_ENTRY_ONE_SHOT
    /\ sv[1].data = RebootToRecovery
    /\ {"EFI_VARIABLE_NON_VOLATILE", "EFI_VARIABLE_BOOTSERVICE_ACCESS",
        "EFI_VARIABLE_RUNTIME_ACCESS"} \subseteq sv[1].attributes
    /\ ret = "NOTIFY_OK"

\* C3 as stated: in the success scenario set_variable is called once with those
\* arguments and a data size of (19+1)*2 = 40 bytes, and the result is NOTIFY_OK.
C3_Original == C3_Scenario => (C3_Call /\ sv[1].data_size = (19 + 1) * 2)

\* C3 as amended: in the success scenario set_variable is called once with those
\* arguments and a data size of (18+1)*2 = 38 bytes ("reboot-to-recovery" has 18
\* characters), and the result is NOTIFY_OK.
C3_Success == C3_Scenario => (C3_Call /\ sv[1].data_size = (18 + 1) * 2)

C3_Witness == C3_Scenario /\ ret = "NOTIFY_OK" /\ Len(sv) = 1

\* what a notification whose set_variable call failed has done when it returns
FirmwareFailureLog ==
    <<<<"kzalloc", name_efichar>>, <<"kzalloc", cmd_efichar>>, <<"set_variable", 0>>,
      <<"pr_err", 0>>, <<"kfree", cmd_efichar>>, <<"kfree", name_efichar>>>>

\* C4: the result is NOTIFY_OK if and only if set_variable was called and
\* answered EFI_SUCCESS; whatever other status it answers, the notification
\* returns NOTIFY_DONE after the same steps.
C4_OutcomeMapping ==
    /\ InCall /\ ret = "NOTIFY_OK" => Len(sv) = 1 /\ status = "EFI_SUCCESS"
    /\ pc = "returned" /\ sv # <<>> /\ status = "EFI_SUCCESS" => ret = "NOTIFY_OK"
    /\ pc = "returned" /\ sv # <<>> /\ status # "EFI_SUCCESS"
         => ret = "NOTIFY_DONE" /\ log = FirmwareFailureLog
    /\ pc = "returned" /\ sv = <<>> => ret = "NOTIFY_DONE"

C4_Witness ==
    /\ pc = "returned"
    /\ Len(sv) = 1
    /\ status = "EFI_WRITE_PROTECTED"
    /\ ret = "NOTIFY_DONE"

\* C5: set_variable is called at most once in a notification, and only when
\* both allocations succeeded and no failure was logged before the call.
C5_NoCallAfterLocalFailure ==
    /\ Len(sv) <= 1
    /\ CountKind("set_variable") = Len(sv)
    /\ \A k \in 1..Len(log) :
        log[k][1] = "set_variable"
            => /\ name_efichar # NULL
               /\ cmd_efichar # NULL
               /\ \A j \in 1..(k - 1) : log[j][1] # "pr_err" /\ log[j] # <<"kzalloc", NULL>>
    /\ InCall /\ Count("kzalloc", NULL) > 0 => sv = <<>>

C5_Witness ==
    /\ pc = "returned"
    /\ name_efichar # NULL
    /\ cmd_efichar = NULL
    /\ Count("kzalloc", NULL) = 1
    /\ sv = <<>>

----------------------------------------------------------------------------
(* Properties of efichar_from_char, for a call on its own *)

\* the source string, the capacity and the destination of the encoder call
EncSrcLen == strlen(SrcMem)
EncCapUnits == enc.dest_len \div 2
EncDest == heap[enc.dest].units
EncMin(a, b) == IF a <= b THEN a ELSE b

\* the call has returned from a destination of exactly efi_char16_bufsz(s) bytes
C6_Case == enc.pc = "done" /\ enc.dest_len = efi_char16_bufsz(SrcMem)

\* C6: efi_char16_bufsz(s) is (len(s)+1)*2, and encoding s into that many
\* bytes returns len(s), leaves unit i equal to the byte s[i] for every
\* i < len(s), and the terminator 0 at unit len(s).
C6_RoundTripSizing ==
    /\ efi_char16_bufsz(SrcMem) = (EncSrcLen + 1) * 2
    /\ C6_Case
         => /\ enc.ret = EncSrcLen
            /\ \A i \in 0..(EncSrcLen - 1) : EncDest[i + 1] = SrcMem[i + 1]
            /\ EncDest[EncSrcLen + 1] = 0

\* C7: with a capacity of at least one unit, every index the encoder writes is
\* below floor(c/2), nothing beyond the c bytes changes, and the terminator is
\* at an index of at most floor(c/2)-1.
C7_TruncationSafety ==
    enc.pc # "idle" /\ enc.dest_len >= 2
        => /\ \A k \in enc.written : k < EncCapUnits
           /\ \A k \in EncCapUnits..(RegionUnits - 1) : EncDest[k + 1] = Unwritten
           /\ enc.pc = "done" => enc.ret <= EncCapUnits - 1 /\ EncDest[enc.ret + 1] = 0

C7_Witness ==
    /\ enc.pc = "done"
    /\ enc.dest_len = 3
    /\ EncSrcLen = 3
    /\ enc.written = {0}

\* C8: with a capacity of at least one unit the encoder returns
\* min(len(s), floor(c/2)-1), the terminator is at that index, the units before
\* it are the converted bytes and no unit after it was written; for the empty
\* string it returns 0 and unit 0 is the terminator.
C8_EncoderResult ==
    enc.pc = "done" /\ enc.dest_len >= 2
        => /\ enc.ret = EncMin(EncSrcLen, EncCapUnits - 1)
           /\ EncDest[enc.ret + 1] = 0
           /\ enc.written = 0..enc.ret
           /\ \A k \in 0..(enc.ret - 1) : EncDest[k + 1] = CharToChar16(SrcMem[k + 1])
           /\ \A k \in (enc.ret + 1)..(RegionUnits - 1) : EncDest[k + 1] = Unwritten
           /\ EncSrcLen = 0 => enc.ret = 0 /\ EncDest[1] = 0

C8_Witness ==
    /\ enc.pc = "done"
    /\ enc.dest_len = 4
    /\ EncSrcLen = 3
    /\ enc.ret = 1

----------------------------------------------------------------------------
(* Properties of the module's life cycle and of the firmware call *)

\* C9: efibc_init calls register_reboot_notifier if and only if the EFI runtime
\* services are there; without them it registers nothing and returns 0; with
\* them it returns -1 if the registration failed and 0 otherwise.
C9_StartupLifecycle ==
    last_op.op = "init"
        => /\ last_op.reg_called <=> efi_runtime
           /\ ~efi_runtime => last_op.ret = 0 /\ ~registered
           /\ efi_runtime => (last_op.ret = -1 <=> last_op.reg_failed)
           /\ last_op.ret # -1 => last_op.ret = 0
           /\ registered <=> (efi_runtime /\ ~last_op.reg_failed)

C9_Witness ==
    /\ last_op.op = "init"
    /\ ~efi_runtime
    /\ modstate = "live"
    /\ ~registered

\* C10: every set_variable call, whatever the payload and whatever happened
\* before, has the name "LoaderEntryOneShot" with its terminator, the GUID
\* 4a67b082-0a4c-41cf-b6c7-440b29bb8c4f, and exactly the attributes
\* NON_VOLATILE, BOOTSERVICE_ACCESS and RUNTIME_ACCESS.
C10_WireConstants ==
    \A k \in 1..Len(sv) :
        /\ sv[k].name = <<76, 111, 97, 100, 101, 114, 69, 110, 116, 114, 121, 79,
                          110, 101, 83, 104, 111, 116, 0>>
        /\ sv[k].guid = <<1248309378, 2636, 16847, 182, 199, 68, 11, 41, 187, 140, 79>>
        /\ sv[k].attributes = {"EFI_VARIABLE_NON_VOLATILE",
                               "EFI_VARIABLE_BOOTSERVICE_ACCESS",
                               "EFI_VARIABLE_RUNTIME_ACCESS"}

C10_Witness ==
    /\ Len(sv) = 1
    /\ cmd = <<200, 0, 65, 0>>
    /\ status = "EFI_OUT_OF_RESOURCES"
    /\ pc = "returned"

----------------------------------------------------------------------------
(* Further properties of efibc_reboot_notifier_call *)

\* the notification is inside the function and has not returned
Running == pc \notin {"idle", "returned"}

\* C12: whatever the event, the payload, the allocator and the firmware do, the
\* notifier's result is NOTIFY_DONE or NOTIFY_OK only, it makes at most six
\* calls to the allocator, the log and the firmware, its copy loops end with
\* the source, and once entered it reaches its return.
C12_BestEffort ==
    /\ [](/\ ret \in {"NOTIFY_DONE", "NOTIFY_OK"}
          /\ Len(log) <= 6
          /\ enc.pc = "loop" => enc.i <= strlen(SrcMem))
    /\ (Running ~> pc = "returned")

C12_Witness ==
    /\ pc = "returned"
    /\ status = "EFI_INVALID_PARAMETER"
    /\ Len(log) = 6

\* C13: in every set_variable call the data size is (strlen(cmd)+1)*2, the data
\* buffer has exactly that size, its first strlen(cmd) units are the bytes of
\* cmd one for one, and the unit at strlen(cmd) is 0.
C13_DataArgument ==
    pc = "L129"
        => /\ Len(sv) = 1
           /\ sv[1].data_size = (strlen(cmd) + 1) * 2
           /\ heap[cmd_efichar].size = sv[1].data_size
           /\ Len(sv[1].data) = strlen(cmd) + 1
           /\ \A i \in 0..(strlen(cmd) - 1) : sv[1].data[i + 1] = cmd[i + 1]
           /\ sv[1].data[strlen(cmd) + 1] = 0

\* C14: in a notification that allocated both buffers, kfree is called on the
\* command buffer and then on the name buffer, once each, as the last two
\* things before the return and after any set_variable call; the encoder
\* writes to, and the firmware is given, live buffers only.
C14_CleanupOrdering ==
    (InCall /\ name_efichar # NULL /\ cmd_efichar # NULL)
        => /\ pc = "returned"
                => /\ Len(log) >= 2
                   /\ log[Len(log) - 1] = <<"kfree", cmd_efichar>>
                   /\ log[Len(log)] = <<"kfree", name_efichar>>
                   /\ CountKind("kfree") = 2
           /\ \A j, k \in 1..Len(log) :
                (log[j][1] = "kfree" /\ log[k][1] = "set_variable") => k < j
           /\ enc.pc = "loop" => heap[enc.dest].live
           /\ pc \in {"L120", "L129"} => heap[name_efichar].live /\ heap[cmd_efichar].live

C14_Witness ==
    /\ pc = "returned"
    /\ ret = "NOTIFY_OK"
    /\ cmd = <<65, 65, 0>>
    /\ Len(log) = 5

\* the payload has a NUL before its terminator, with something after it
HasEmbeddedNul(d) == d # NULL_DATA /\ strlen(d) < Len(d) - 1

\* a SYS_RESTART notification with that payload whose two allocations succeeded
\* has returned
C15_Case ==
    /\ pc = "returned"
    /\ what = "SYS_RESTART"
    /\ HasEmbeddedNul(cmd)
    /\ name_efichar # NULL
    /\ cmd_efichar # NULL

C16_NameMismatchUnreachable ==
    /\ (pc = "L106ret" /\ enc.pc = "done") => (enc.ret = 18 /\ enc.src = "name")
    /\ pc = "out3" => Len(sv) = 1

C16_Witness ==
    /\ pc = "L106ret"
    /\ enc.pc = "done"
    /\ enc.ret = 18

----------------------------------------------------------------------------
(* Further properties of the module's life cycle *)

\* C17: the notifier runs, and so calls set_variable, only while it is
\* registered and the EFI runtime services are there; without them it is
\* never entered.
C17_OnlyWithRuntimeServices ==
    /\ Running => (registered /\ efi_runtime /\ modstate = "live")
    /\ ~efi_runtime => (pc = "idle" /\ sv = <<>> /\ ~registered)

C17_Witness ==
    /\ pc = "L129"
    /\ registered
    /\ efi_runtime
    /\ Len(sv) = 1

\* C18: efibc_exit unregisters a notifier that was registered, and leaves it
\* unregistered.
C18_BalancedRegistration ==
    last_op.op = "exit" => (last_op.was_registered /\ ~registered)


(* C11: repeated notifications *)

\* the allocator and the firmware did to this notification what they did to
\* the one before it
SameBehaviour ==
    /\ (name_efichar # NULL) = prev[1].name_ok
    /\ (cmd_efichar # NULL) = prev[1].cmd_ok
    /\ status = prev[1].status

\* C11: a notification that repeats the one before it, and meets the same
\* allocator and firmware behaviour, makes an identical set_variable call and
\* ends the same way, through the same steps with allocations of its own
\* (two of them when it reaches the firmware); once a notification has
\* returned no buffer is allocated and the registration of the module is what
\* it was before.
C11_Idempotence ==
    /\ pc = "returned" => \A p \in 1..HeapSlots : ~heap[p].live
    /\ (pc = "returned" /\ prev # <<>>) =>
        /\ registered = prev[1].registered
        /\ modstate = prev[1].modstate
        /\ SameBehaviour =>
            /\ sv = prev[1].sv
            /\ ret = prev[1].ret
            /\ [k \in 1..Len(log) |-> log[k][1]] = prev[1].steps
            /\ sv # <<>> => CountKind("kzalloc") = 2 /\ CountKind("kfree") = 2

\* a repeated notification has written the variable as the one before it did
C11_Witness ==
    /\ pc = "returned"
    /\ prev # <<>>
    /\ SameBehaviour
    /\ Len(sv) = 1
    /\ Len(prev[1].sv) = 1
    /\ ret = "NOTIFY_OK"
    /\ strlen(cmd) = MaxLen


(* C19: a payload that changes during the call *)

\* the units of the command buffer the copy may write: those the size query
\* paid for
CmdCapUnits == cmd_efichar_blen \div SizeofChar16

\* no unit at or beyond the end of the command buffer is written
C19_NoOverrun ==
    /\ (enc.pc # "idle" /\ enc.src = "cmd") =>
        /\ enc.dest_len = cmd_efichar_blen
        /\ \A k \in enc.written : k < CmdCapUnits
    /\ (Running /\ cmd_efichar # NULL /\ heap[cmd_efichar].live) =>
        \A k \in CmdCapUnits..(RegionUnits - 1) :
            heap[cmd_efichar].units[k + 1] = Unwritten

\* the step that leaves the check of the copy goes on to set_variable exactly
\* when the count the copy returned is the length the payload has at that
\* moment, and to the release of both buffers otherwise; set_variable is
\* reached and called from nowhere else
C19_Check ==
    /\ (pc = "L113ret" /\ pc' # "L113ret") =>
        IF enc.ret = strlen(cmd)
        THEN pc' = "L120"
        ELSE pc' = "out3" /\ sv' = <<>> /\ log' = Append(log, <<"pr_err", 0>>)
    /\ (pc' = "L120" /\ pc # "L120") => (pc = "L113ret" /\ enc.ret = strlen(cmd))
    /\ sv' # sv => (pc = "L120" \/ sv' = <<>>)

\* a notification that did not write the variable has returned with no buffer
\* allocated
C19_Released ==
    (pc = "returned" /\ sv = <<>>) => \A p \in 1..HeapSlots : ~heap[p].live

\* C19: while another thread changes the payload between the size query, the
\* copy and the check of the copy, the copy never writes at or beyond the end
\* of the command buffer, set_variable is called only after a check that found
\* the number of units written equal to the length of the payload at that
\* moment, and otherwise the notifier logs, releases both buffers and returns
\* without calling the firmware.
C19_NoOverrunUnderMutation ==
    /\ [](C19_NoOverrun /\ C19_Released)
    /\ [][C19_Check]_vars

\* the payload grew after it was sized: the copy stopped at the end of the
\* buffer, the check failed, both buffers were released and the firmware was
\* not called
C19_Witness ==
    /\ pc = "returned"
    /\ cmd # NULL_DATA
    /\ strlen(cmd) > CmdCapUnits - 1
    /\ CmdCapUnits >= 1
    /\ CountKind("kzalloc") = 2
    /\ CountKind("kfree") = 2
    /\ CountKind("pr_err") = 1
    /\ sv = <<>>
    /\ \A p \in 1..HeapSlots : ~heap[p].live

====
